---- MODULE Spec2Model ----
(***************************************************************************)
(* The workshop notebooks as state machines.                               *)
(*                                                                         *)
(* Spec     : one notebook, chosen in Init, is executed cell by cell in    *)
(*            document order by the kernel its metadata names.  Every      *)
(*            framework call of a code cell is one statement of the        *)
(*            notebook's program table and one step of the machine.        *)
(*            The exercise notebooks (2.4, 2.5) hold cells with blanks:    *)
(*            when `completed` is FALSE such a cell raises an error as     *)
(*            committed; when it is TRUE the cell runs the calls its own   *)
(*            comments ask the learner to write.                           *)
(* SpecGrid : the Python grid loop of the filter-visualization notebook,   *)
(*            run by a Python interpreter.                                 *)
(* SpecAscent : the two gradient-ascent loops of the same notebook, the    *)
(*            loop of the cell at line 431 and generate_pattern followed   *)
(*            by deprocess_image, run by a Python interpreter.             *)
(***************************************************************************)
EXTENDS Integers, Sequences, FiniteSets, TLC

VARIABLES nb, completed, px, pc, status, env, heap, arr, gens, hist, df,
          log, ef, fsys, gpc, layer_idx, gi, gj, results, shown,
          acall, apc, ai, aimg, atrace

vars == <<nb, completed, px, pc, status, env, heap, arr, gens, hist, df,
          log, ef, fsys, gpc, layer_idx, gi, gj, results, shown,
          acall, apc, ai, aimg, atrace>>

nbVars == <<nb, completed, px, pc, status, env, heap, arr, gens, hist, df,
            log, ef, fsys>>

gridVars == <<gpc, layer_idx, gi, gj, results, shown>>

ascentVars == <<acall, apc, ai, aimg, atrace>>

(***************************************************************************)
(* Program constants                                                       *)
(***************************************************************************)
PixelMax == 255
ScaleBy == 255
batch_size == 20
TrainCount == 2000
ValidationCount == 1000
TestCount == 1000
EvalSteps == 50

\* Raw pixel values an image array may hold when it is loaded.
Pixels == {0, 1, 128, PixelMax}

Notebooks == {"nb11", "nb12", "nb21", "nb24", "nb25", "viz"}

\* The kernel named by the notebook's metadata.
Kernel(n) == IF n = "nb12" THEN "python" ELSE "ir"

(***************************************************************************)
(* Statements.  cell/line: source lines of the cell and of the call;       *)
(* v: variable bound or receiver; x, y: data and labels; val: validation   *)
(* data; f: file, directory, layer or generator configuration; n: count.   *)
(***************************************************************************)
St(cell, line, op, v, x, y, val, f, n) ==
    [cell |-> cell, line |-> line, op |-> op, v |-> v, x |-> x, y |-> y,
     val |-> val, f |-> f, n |-> n]

\* 1.1-a-first-look-at-a-neural-network.ipynb
Prog11 ==
    << St(4, 9, "setup", "", "", "", "", "", 0),
       St(38, 44, "load_data", "", "", "", "", "mnist", 0),
       St(59, 70, "visualize", "", "train_images", "", "", "", 0),
       St(82, 97, "visualize", "", "test_images", "", "", "", 0),
       St(185, 191, "build", "model", "", "", "", "", 0),
       St(226, 232, "compile", "model", "", "", "", "", 0),
       St(240, 245, "summary", "model", "", "", "", "", 0),
       St(256, 267, "reshape", "train_images", "train_images", "", "", "", 0),
       St(256, 268, "scale", "train_images", "train_images", "", "", "", 0),
       St(256, 270, "reshape", "test_images", "test_images", "", "", "", 0),
       St(256, 271, "scale", "test_images", "test_images", "", "", "", 0),
       St(282, 288, "encode", "train_labels", "train_labels", "", "", "", 0),
       St(282, 289, "encode", "test_labels", "test_labels", "", "", "", 0),
       St(301, 308, "fit", "model", "train_images", "train_labels", "", "", 15),
       St(332, 338, "plot_history", "", "history", "", "", "", 0),
       St(352, 357, "evaluate", "model", "test_images", "test_labels", "", "", 0),
       St(379, 384, "predict_classes", "model", "test_images", "", "", "", 0),
       St(388, 403, "visualize", "", "test_images", "", "", "", 0) >>

\* Mutant: the cell that rescales the images comes after the fit cell.
Prog12_ScaleAfterFit ==
    << St(21, 26, "setup", "", "", "", "", "", 0),
       St(37, 48, "load_data", "", "", "", "", "fashion_mnist", 0),
       St(132, 141, "visualize", "", "train_images", "", "", "", 0),
       St(181, 189, "build", "model", "", "", "", "", 0),
       St(209, 216, "compile", "model", "", "", "", "", 0),
       St(209, 220, "summary", "model", "", "", "", "", 0),
       St(239, 248, "fit", "model", "train_images", "train_labels", "", "", 30),
       St(147, 155, "scale", "train_images", "train_images", "", "", "", 0),
       St(147, 156, "scale", "test_images", "test_images", "", "", "", 0),
       St(252, 260, "plot_history", "", "history", "", "", "", 0),
       St(279, 285, "evaluate", "model", "test_images", "test_labels", "", "", 0),
       St(300, 305, "predict", "model", "test_images", "", "", "", 0),
       St(342, 356, "visualize", "", "test_images", "", "", "", 0) >>

\* 1.2-Fashion-MNIST-example-solution.ipynb
Prog12 ==
    << St(21, 26, "setup", "", "", "", "", "", 0),
       St(37, 48, "load_data", "", "", "", "", "fashion_mnist", 0),
       St(132, 141, "visualize", "", "train_images", "", "", "", 0),
       St(147, 155, "scale", "train_images", "train_images", "", "", "", 0),
       St(147, 156, "scale", "test_images", "test_images", "", "", "", 0),
       St(181, 189, "build", "model", "", "", "", "", 0),
       St(209, 216, "compile", "model", "", "", "", "", 0),
       St(209, 220, "summary", "model", "", "", "", "", 0),
       St(239, 248, "fit", "model", "train_images", "train_labels", "", "", 30),
       St(252, 260, "plot_history", "", "history", "", "", "", 0),
       St(279, 285, "evaluate", "model", "test_images", "test_labels", "", "", 0),
       St(300, 305, "predict", "model", "test_images", "", "", "", 0),
       St(342, 356, "visualize", "", "test_images", "", "", "", 0) >>

\* 2.1-introduction-to-convnets-solution.ipynb
\* lines 1-160: the convnet is built and trained for one epoch
Prog21_Train ==
    << St(4, 9, "setup", "", "", "", "", "", 0),
       St(38, 43, "build", "model", "", "", "", "", 0),
       St(60, 65, "summary", "model", "", "", "", "", 0),
       St(84, 89, "add_layers", "model", "", "", "", "", 0),
       St(105, 110, "summary", "model", "", "", "", "", 0),
       St(123, 128, "load_data", "", "", "", "", "mnist", 0),
       St(123, 131, "reshape", "train_images", "train_images", "", "", "", 0),
       St(123, 132, "scale", "train_images", "train_images", "", "", "", 0),
       St(123, 134, "reshape", "test_images", "test_images", "", "", "", 0),
       St(123, 135, "scale", "test_images", "test_images", "", "", "", 0),
       St(123, 137, "encode", "train_labels", "train_labels", "", "", "", 0),
       St(123, 138, "encode", "test_labels", "test_labels", "", "", "", 0),
       St(142, 147, "compile", "model", "", "", "", "", 0),
       St(142, 153, "fit", "model", "train_images", "train_labels", "", "", 1) >>

\* Mutant: the load cell reads the history but not the model.
Prog21_Pretrained_NoModelLoad ==
    << St(168, 174, "load_history", "history", "", "", "", "2-1-GPU-history.pk", 0),
       St(168, 175, "data_frame", "df", "history", "", "", "", 0),
       St(168, 176, "summary", "model", "", "", "", "", 0),
       St(192, 199, "plot_history", "", "df", "", "", "", 0),
       St(219, 224, "evaluate", "model", "test_images", "test_labels", "", "", 0),
       St(244, 249, "predict_classes", "model", "test_images", "", "", "", 0),
       St(253, 268, "visualize", "", "test_images", "", "", "", 0) >>

\* lines 161-270: a model trained earlier is loaded and evaluated
Prog21_Pretrained ==
    << St(168, 173, "load_model", "model", "", "", "", "2-1-GPU.h5", 0),
       St(168, 174, "load_history", "history", "", "", "", "2-1-GPU-history.pk", 0),
       St(168, 175, "data_frame", "df", "history", "", "", "", 0),
       St(168, 176, "summary", "model", "", "", "", "", 0),
       St(192, 199, "plot_history", "", "df", "", "", "", 0),
       St(219, 224, "evaluate", "model", "test_images", "test_labels", "", "", 0),
       St(244, 249, "predict_classes", "model", "test_images", "", "", "", 0),
       St(253, 268, "visualize", "", "test_images", "", "", "", 0) >>

Prog21 == Prog21_Train \o Prog21_Pretrained

\* 2.4-using-a-pretrained-convnet.ipynb; the cells at 124, 264 and 314 hold
\* blanks and are listed with the calls their comments and the surrounding
\* text ask for.
\* lines 1-300: features recorded with conv_base, a classifier trained on them
Prog24_FeatureExtraction ==
    << St(4, 9, "setup", "", "", "", "", "", 0),
       St(124, 129, "build_base", "conv_base", "", "", "", "imagenet", 0),
       St(152, 157, "summary", "conv_base", "", "", "", "", 0),
       St(178, 190, "datagen", "datagen", "", "", "", "rescale", 0),
       St(178, 230, "extract_features", "train", "", "", "", "train", TrainCount),
       St(178, 231, "extract_features", "validation", "", "", "", "validation", ValidationCount),
       St(178, 232, "extract_features", "test", "", "", "", "test", TestCount),
       St(243, 251, "reshape", "train_features", "train_features", "", "", "", 0),
       St(243, 252, "reshape", "validation_features", "validation_features", "", "", "", 0),
       St(243, 253, "reshape", "test_features", "test_features", "", "", "", 0),
       St(264, 270, "build", "model", "", "", "", "", 0),
       St(264, 276, "compile", "model", "", "", "", "", 0),
       St(264, 279, "fit", "model", "train_features", "train_labels_ef", "validation_features", "", 0),
       St(292, 297, "plot_history", "", "history", "", "", "", 0) >>

\* Mutant: the checkpoint of the classifier stage is not loaded.
Prog24_EndToEnd_NoCheckpoint ==
    << St(314, 320, "build", "model", "conv_base", "", "", "", 0),
       St(335, 340, "summary", "model", "", "", "", "", 0),
       St(355, 360, "count_trainable", "model", "", "", "", "", 0),
       St(365, 370, "freeze_weights", "conv_base", "", "", "", "", 0),
       St(374, 379, "count_trainable", "model", "", "", "", "", 0),
       St(393, 399, "datagen", "train_datagen", "", "", "", "rescale", 0),
       St(393, 410, "datagen", "test_datagen", "", "", "", "rescale", 0),
       St(393, 412, "flow", "train_generator", "train_datagen", "", "", "train", 0),
       St(393, 420, "flow", "validation_generator", "test_datagen", "", "", "validation", 0),
       St(393, 428, "compile", "model", "", "", "", "", 0),
       St(452, 458, "load_history", "history", "", "", "", "2-4-GPU-history.pk", 0),
       St(452, 459, "data_frame", "df", "history", "", "", "", 0),
       St(452, 461, "summary", "model", "", "", "", "", 0),
       St(472, 479, "plot_history", "", "df", "", "", "", 0) >>

\* lines 301-498: a classifier on top of conv_base, the base frozen
Prog24_EndToEnd ==
    << St(314, 320, "build", "model", "conv_base", "", "", "", 0),
       St(335, 340, "summary", "model", "", "", "", "", 0),
       St(355, 360, "count_trainable", "model", "", "", "", "", 0),
       St(365, 370, "freeze_weights", "conv_base", "", "", "", "", 0),
       St(374, 379, "count_trainable", "model", "", "", "", "", 0),
       St(393, 399, "datagen", "train_datagen", "", "", "", "rescale", 0),
       St(393, 410, "datagen", "test_datagen", "", "", "", "rescale", 0),
       St(393, 412, "flow", "train_generator", "train_datagen", "", "", "train", 0),
       St(393, 420, "flow", "validation_generator", "test_datagen", "", "", "validation", 0),
       St(393, 428, "compile", "model", "", "", "", "", 0),
       St(452, 457, "load_model", "model", "", "", "", "cats_and_dogs_small_3.h5", 0),
       St(452, 458, "load_history", "history", "", "", "", "2-4-GPU-history.pk", 0),
       St(452, 459, "data_frame", "df", "history", "", "", "", 0),
       St(452, 461, "summary", "model", "", "", "", "", 0),
       St(472, 479, "plot_history", "", "df", "", "", "", 0) >>

\* Mutant: the model is not compiled again after unfreeze_weights.
Prog24_FineTuning_NoCompile ==
    << St(531, 536, "summary", "conv_base", "", "", "", "", 0),
       St(554, 559, "unfreeze_weights", "conv_base", "", "", "", "block5_conv1", 0),
       St(563, 568, "summary", "conv_base", "", "", "", "", 0),
       St(611, 616, "load_model", "model", "", "", "", "cats_and_dogs_small_4.h5", 0),
       St(611, 617, "load_history", "history", "", "", "", "2-4-GPU-history_4.pk", 0),
       St(611, 618, "data_frame", "df", "history", "", "", "", 0),
       St(611, 620, "summary", "model", "", "", "", "", 0),
       St(631, 640, "plot_history", "", "df", "", "", "", 0),
       St(660, 669, "plot_history", "", "df", "", "", "", 0),
       St(693, 699, "flow", "test_generator", "test_datagen", "", "", "test", 0),
       St(693, 707, "evaluate", "model", "test_generator", "", "", "", EvalSteps) >>

\* lines 499-710: fine-tuning and the evaluation on the test data
Prog24_FineTuning ==
    << St(531, 536, "summary", "conv_base", "", "", "", "", 0),
       St(554, 559, "unfreeze_weights", "conv_base", "", "", "", "block5_conv1", 0),
       St(563, 568, "summary", "conv_base", "", "", "", "", 0),
       St(581, 587, "compile", "model", "", "", "", "", 0),
       St(611, 616, "load_model", "model", "", "", "", "cats_and_dogs_small_4.h5", 0),
       St(611, 617, "load_history", "history", "", "", "", "2-4-GPU-history_4.pk", 0),
       St(611, 618, "data_frame", "df", "history", "", "", "", 0),
       St(611, 620, "summary", "model", "", "", "", "", 0),
       St(631, 640, "plot_history", "", "df", "", "", "", 0),
       St(660, 669, "plot_history", "", "df", "", "", "", 0),
       St(693, 699, "flow", "test_generator", "test_datagen", "", "", "test", 0),
       St(693, 707, "evaluate", "model", "test_generator", "", "", "", EvalSteps) >>

Prog24 == Prog24_FeatureExtraction \o Prog24_EndToEnd \o Prog24_FineTuning

\* 2.5-cifar10-cnn.ipynb; the cells at 39 and 59 hold blanks.
\* data_augmentation is TRUE (line 35), so the cell at 118 takes its else branch.
Prog25 ==
    << St(13, 19, "setup", "", "", "", "", "", 0),
       St(26, 33, "setup", "", "", "", "", "", 0),
       St(39, 47, "load_data", "", "", "", "", "cifar10", 0),
       St(39, 50, "scale", "x_train", "cifar10_train_x", "", "", "", 0),
       St(39, 51, "scale", "x_test", "cifar10_test_x", "", "", "", 0),
       St(39, 54, "encode", "y_train", "cifar10_train_y", "", "", "", 0),
       St(39, 55, "encode", "y_test", "cifar10_test_y", "", "", "", 0),
       St(59, 67, "build", "model", "", "", "", "", 0),
       St(59, 110, "compile", "model", "", "", "", "", 0),
       St(118, 137, "datagen", "datagen", "", "", "", "plain", 0),
       St(118, 146, "fit", "model", "x_train", "y_train", "x_test", "", 2),
       St(157, 162, "plot_history", "", "history", "", "", "", 0) >>

\* The filter-visualization notebook (an R notebook; the cells from line 403
\* on are written in Python).
ProgViz ==
    << St(4, 9, "setup", "", "", "", "", "", 0),
       St(55, 60, "load_model", "model", "", "", "", "cats_and_dogs_small_2.h5", 0),
       St(55, 61, "summary", "model", "", "", "", "", 0),
       St(72, 80, "image_load", "img_tensor", "", "", "", "cat.1700.jpg", 0),
       St(72, 82, "reshape", "img_tensor", "img_tensor", "", "", "", 0),
       St(72, 86, "scale", "img_tensor", "img_tensor", "", "", "", 0),
       St(99, 106, "visualize", "", "img_tensor", "", "", "", 0),
       St(121, 129, "derive_model", "activation_model", "model", "", "", "", 0),
       St(142, 148, "predict", "activation_model", "img_tensor", "", "", "", 0),
       St(159, 164, "setup", "first_layer_activation", "activations", "", "", "", 0),
       St(178, 183, "setup", "plot_channel", "", "", "", "", 0),
       St(197, 204, "visualize", "", "activations", "", "", "", 0),
       St(217, 224, "visualize", "", "activations", "", "", "", 0),
       St(336, 343, "build_base", "model", "", "", "", "imagenet", 0),
       St(336, 352, "backend", "loss", "model", "", "", "block3_conv1", 0),
       St(364, 371, "backend", "grads", "loss", "", "", "", 0),
       St(384, 390, "backend", "grads", "grads", "", "", "", 0),
       St(403, 408, "backend", "iterate", "", "", "", "", 0),
       St(425, 431, "backend", "input_img_data", "", "", "", "", 0),
       St(452, 457, "setup", "deprocess_image", "", "", "", "", 0),
       St(482, 487, "setup", "generate_pattern", "", "", "", "", 0),
       St(523, 528, "visualize", "", "", "", "", "", 0),
       St(544, 549, "visualize", "", "", "", "", "", 0) >>

\* The identifiers the statement at `line` of the filter-visualization
\* notebook binds (assignments, function definitions, imports).
IdentsBound(line) ==
    CASE line = 60 -> {"model"}
      [] line = 80 -> {"img_path", "img", "img_tensor"}
      [] line \in {82, 86} -> {"img_tensor"}
      [] line = 129 -> {"layer_outputs", "activation_model"}
      [] line = 148 -> {"activations"}
      [] line = 164 -> {"first_layer_activation"}
      [] line = 183 -> {"plot_channel"}
      [] line = 343 -> {"model"}
      [] line = 352 -> {"layer_name", "filter_index", "layer_output", "loss"}
      [] line \in {371, 390} -> {"grads"}
      [] line = 408 -> {"iterate", "np", "loss_value", "grads_value"}
      [] line = 431 -> {"input_img_data", "step", "i", "loss_value", "grads_value"}
      [] line = 457 -> {"deprocess_image"}
      [] line = 487 -> {"generate_pattern"}
      [] line = 549 -> {"layer_name", "size", "margin", "results", "i", "j", "filter_img"}
      [] OTHER -> {}

\* The identifiers the statement at `line` reads without binding them
\* itself first; a call of generate_pattern reads what its body reads.
IdentsRead(line) ==
    CASE line = 61 -> {"model"}
      [] line \in {82, 86, 106} -> {"img_tensor"}
      [] line = 129 -> {"model"}
      [] line = 148 -> {"activation_model", "img_tensor"}
      [] line = 164 -> {"activations"}
      [] line \in {204, 224} -> {"plot_channel", "first_layer_activation"}
      [] line = 352 -> {"model"}
      [] line = 371 -> {"loss", "model"}
      [] line = 390 -> {"grads"}
      [] line = 408 -> {"K", "model", "loss", "grads"}
      [] line = 431 -> {"np", "iterate"}
      [] line \in {528, 549} ->
           {"plt", "generate_pattern", "model", "K", "np", "deprocess_image"}
      [] OTHER -> {}

\* The identifiers bound when the k-th statement of the notebook starts.
BoundBefore(k) == UNION {IdentsBound(ProgViz[j].line) : j \in 1..(k - 1)}

Prog(n) ==
    CASE n = "nb11" -> Prog11
      [] n = "nb12" -> Prog12
      [] n = "nb21" -> Prog21
      [] n = "nb24" -> Prog24
      [] n = "nb25" -> Prog25
      [] n = "viz" -> ProgViz

\* First lines of the cells that hold blanks left for the learner.
BlankCells(n) ==
    CASE n = "nb24" -> {124, 264, 314}
      [] n = "nb25" -> {39, 59}
      [] OTHER -> {}

\* First lines of the cells written in Python.
PyCells(n) ==
    CASE n = "nb12" -> {s.cell : s \in {Prog12[k] : k \in 1..Len(Prog12)}}
      [] n = "viz" -> {403, 425, 452, 482, 523, 544}
      [] OTHER -> {}

CellLang(n, cell) == IF cell \in PyCells(n) THEN "python" ELSE "ir"

\* A cell the kernel cannot run: written in another language than the
\* kernel's, or holding blanks nobody filled in.
CellFails(n, cell, done) ==
    \/ CellLang(n, cell) # Kernel(n)
    \/ cell \in BlankCells(n) /\ ~done


(***************************************************************************)
(* Framework objects                                                       *)
(***************************************************************************)
L(name, kind) == [name |-> name, kind |-> kind]

\* The layers of the VGG16 convolutional base, bottom to top.
VGGLayers ==
    << "input_1",
       "block1_conv1", "block1_conv2", "block1_pool",
       "block2_conv1", "block2_conv2", "block2_pool",
       "block3_conv1", "block3_conv2", "block3_conv3", "block3_pool",
       "block4_conv1", "block4_conv2", "block4_conv3", "block4_pool",
       "block5_conv1", "block5_conv2", "block5_conv3", "block5_pool" >>

VGGNames == {VGGLayers[k] : k \in 1..Len(VGGLayers)}

VGGConv == VGGNames \ {"input_1", "block1_pool", "block2_pool", "block3_pool",
                       "block4_pool", "block5_pool"}

VGGIndex(name) == CHOOSE k \in 1..Len(VGGLayers) : VGGLayers[k] = name

\* The layers of the base from `name` upward.
LayersFrom(name) == {VGGLayers[k] : k \in VGGIndex(name)..Len(VGGLayers)}

\* The layer stack a build statement declares.
LayerStack(n, line) ==
    CASE n = "nb11" /\ line = 191 ->
           << L("dense_1", "dense"), L("dense_2", "dense") >>
      [] n = "nb12" /\ line = 189 ->
           << L("flatten_1", "flatten"), L("dense_1", "dense"), L("dense_2", "dense") >>
      [] n = "nb21" /\ line = 43 ->
           << L("conv2d_1", "conv2d"), L("max_pooling2d_1", "pool"),
              L("conv2d_2", "conv2d"), L("max_pooling2d_2", "pool"),
              L("conv2d_3", "conv2d") >>
      [] n = "nb21" /\ line = 89 ->
           << L("flatten_1", "flatten"), L("dense_1", "dense"), L("dense_2", "dense") >>
      [] n = "nb24" /\ line = 270 ->
           << L("dense_1", "dense"), L("dropout_1", "dropout"), L("dense_2", "dense") >>
      [] n = "nb24" /\ line = 320 ->
           << L("flatten_1", "flatten"), L("dense_3", "dense"), L("dense_4", "dense") >>
      [] n = "nb25" /\ line = 67 ->
           << L("conv2d_1", "conv2d"), L("activation_1", "activation"),
              L("conv2d_2", "conv2d"), L("activation_2", "activation"),
              L("max_pooling2d_1", "pool"), L("dropout_1", "dropout"),
              L("conv2d_3", "conv2d"), L("activation_3", "activation"),
              L("conv2d_4", "conv2d"), L("activation_4", "activation"),
              L("max_pooling2d_2", "pool"), L("dropout_2", "dropout"),
              L("flatten_1", "flatten"), L("dense_1", "dense"),
              L("activation_5", "activation"), L("dropout_3", "dropout"),
              L("dense_2", "dense"), L("activation_6", "activation") >>
      [] OTHER -> << >>

\* The classifier stored in a checkpoint, and whether it sits on a VGG16 base.
CkptOnBase(file) == file \in {"cats_and_dogs_small_3.h5", "cats_and_dogs_small_4.h5"}

CkptStack(file) ==
    IF CkptOnBase(file)
    THEN << L("flatten_1", "flatten"), L("dense_3", "dense"), L("dense_4", "dense") >>
    ELSE << L("conv2d_1", "conv2d"), L("max_pooling2d_1", "pool"),
            L("conv2d_2", "conv2d"), L("max_pooling2d_2", "pool"),
            L("conv2d_3", "conv2d"), L("flatten_1", "flatten"),
            L("dense_1", "dense"), L("dense_2", "dense") >>

\* The trainability a checkpoint may hold for its base: the file is data
\* outside the notebook, so each way it can have been saved is possible.
CkptBaseStates == {"frozen", "block5", "all"}

HasWeights(kind) == kind \in {"dense", "conv2d"}

NewModel(kind, origin, file, stack, base) ==
    [kind |-> kind, origin |-> origin, file |-> file, stack |-> stack,
     base |-> base, trainable |-> TRUE, ltrain |-> {},
     compiledHere |-> FALSE, ctrain |-> {}, fittedHere |-> FALSE,
     updated |-> {}]

NewBase(origin, file, state) ==
    [NewModel("vgg16", origin, file, << >>, 0) EXCEPT
        !.trainable = (state # "frozen"),
        !.ltrain = IF state = "block5" THEN LayersFrom("block5_conv1") ELSE VGGNames]

T(owner, layer, part) == [owner |-> owner, layer |-> layer, part |-> part]

\* The trainable layers of a VGG16 base object.
BaseTrainableLayers(h, b) ==
    IF b = 0 \/ ~h[b].trainable THEN {} ELSE h[b].ltrain

\* The trainable layers of the base inside model m (none if it has no base).
TrainableBase(h, m) ==
    IF m = 0 THEN {}
    ELSE IF h[m].kind = "vgg16" THEN BaseTrainableLayers(h, m)
    ELSE BaseTrainableLayers(h, h[m].base)

\* model$trainable_weights: kernel and bias of every trainable layer that
\* has weights, in the model's own stack and in its base.
TrainableWeights(h, m) ==
    IF m = 0 THEN {}
    ELSE LET own == IF h[m].trainable
                    THEN {h[m].stack[k].name : k \in
                            {j \in 1..Len(h[m].stack) : HasWeights(h[m].stack[j].kind)}}
                    ELSE {}
             b == IF h[m].kind = "vgg16" THEN m ELSE h[m].base
             inbase == TrainableBase(h, m) \cap VGGConv
         IN  {T(m, l, p) : l \in own, p \in {"kernel", "bias"}}
               \cup {T(b, l, p) : l \in inbase, p \in {"kernel", "bias"}}

\* Mutant: freeze_weights leaves the object as it is.
FreezeObj_Nothing(o) == o

\* freeze_weights(object): the whole object stops being trainable.
FreezeObj(o) == [o EXCEPT !.trainable = FALSE]

\* unfreeze_weights(object, from): the object is trainable again, the layers
\* from `from` upward are trainable and the layers below are frozen.
UnfreezeObj(o, from) == [o EXCEPT !.trainable = TRUE, !.ltrain = LayersFrom(from)]

(***************************************************************************)
(* Arrays                                                                  *)
(***************************************************************************)
ArrNames ==
    {"train_images", "train_labels", "test_images", "test_labels",
     "cifar10_train_x", "cifar10_train_y", "cifar10_test_x", "cifar10_test_y",
     "x_train", "y_train", "x_test", "y_test", "img_tensor",
     "train_features", "train_labels_ef", "validation_features",
     "validation_labels_ef", "test_features", "test_labels_ef",
     "train_generator", "validation_generator", "test_generator"}

NoArr == [kind |-> "none", split |-> "", num |-> 0, den |-> 1]

A(kind, split, num) == [kind |-> kind, split |-> split, num |-> num, den |-> 1]

\* Mutant: the division is applied twice.
ScaleArr_Twice(a) == [a EXCEPT !.den = @ * ScaleBy * ScaleBy]

\* x / 255 (and rescale = 1/255): the value num/den becomes num/(den*255).
ScaleArr(a) == [a EXCEPT !.den = @ * ScaleBy]

\* The arrays a dataset call binds, with the split each belongs to.
DatasetArrays(f, p) ==
    IF f = "cifar10"
    THEN [a \in {"cifar10_train_x", "cifar10_train_y", "cifar10_test_x", "cifar10_test_y"} |->
            CASE a = "cifar10_train_x" -> A("image", "train", p)
              [] a = "cifar10_train_y" -> A("labels", "train", 0)
              [] a = "cifar10_test_x" -> A("image", "test", p)
              [] a = "cifar10_test_y" -> A("labels", "test", 0)]
    ELSE [a \in {"train_images", "train_labels", "test_images", "test_labels"} |->
            CASE a = "train_images" -> A("image", "train", p)
              [] a = "train_labels" -> A("labels", "train", 0)
              [] a = "test_images" -> A("image", "test", p)
              [] a = "test_labels" -> A("labels", "test", 0)]

View(ar, name, role) ==
    [name |-> name, role |-> role, kind |-> ar[name].kind, split |-> ar[name].split,
     num |-> ar[name].num, den |-> ar[name].den]

Views(ar, names, role) == {View(ar, a, role) : a \in names \ {""}}


(***************************************************************************)
(* The notebook run                                                        *)
(***************************************************************************)
ModelVars == {"model", "conv_base", "activation_model"}

\* The longest training history (the epochs of a pickled history or of
\* the fit call the learner writes in 2.4).
MaxEpochs == 3

\* The per-epoch series of a history of a fit with validation data.
Metrics == {"loss", "acc", "val_loss", "val_acc"}

\* The series of one metric over e epochs; its k-th entry is the value of
\* the metric in epoch k.
Series(metric, e) == [k \in 1..e |-> <<metric, k>>]

\* The fit calls that hold out validation data with validation_split.
ValidationSplit(n, line) ==
    \/ n = "nb11" /\ line = 308
    \/ n = "nb12" /\ line = 248
    \/ n = "nb21" /\ line = 153

\* The metrics a fit call records: those of the validation data only if
\* it is given validation data.
FitMetrics(n, s) ==
    IF s.val # "" \/ ValidationSplit(n, s.line)
    THEN Metrics ELSE {"loss", "acc"}

\* epochs = ... of a fit call; the learner's choice where the call is blank.
FitEpochs(s) == IF s.n > 0 THEN {s.n} ELSE 1..MaxEpochs

NoHist == [origin |-> "none", of |-> 0, file |-> "", epochs |-> 0, series |-> << >>]

\* Mutant: the epochs are counted from 0.
SeqLen_FromZero(n) == [k \in 1..n |-> k - 1]

\* seq(length(x)) for a vector x of n >= 1 elements: 1, 2, ..., n
SeqLen(n) == [k \in 1..n |-> k]

\* data.frame(val_loss = unlist(history$val_loss), val_acc = ..., loss = ...,
\*            acc = ..., epochs = seq(length(history$val_loss)))
HistoryFrame(h) ==
    LET epochs == SeqLen(Len(h.series["val_loss"]))
        column(c) == IF c = "epochs" THEN epochs ELSE h.series[c]
    IN  [origin |-> h.origin, of |-> h.of, file |-> h.file, epochs |-> h.epochs,
         series |-> h.series,
         rows |-> [k \in 1..Len(epochs) |->
                     [c \in Metrics \cup {"epochs"} |-> column(c)[k]]]]

\* data.frame accepts the columns: each series is there and all have the
\* length of the epochs column.
FrameFits(h) ==
    /\ Metrics \subseteq DOMAIN h.series
    /\ Len(h.series["val_loss"]) >= 1
    /\ \A m \in Metrics : Len(h.series[m]) = Len(h.series["val_loss"])


\* Mutant: the data directory is the working directory.
DataDir_Here == << "." >>

\* Paths are lists of components; every path the notebooks name starts
\* with "../data".
DataDir == << "..", "data" >>

\* load_model_hdf5("../data/models/..."), py_load_object('../data/models/...')
ModelsDir == DataDir \o << "models" >>

\* base_dir <- "../data/cats_and_dogs_small"
BaseDir == DataDir \o << "cats_and_dogs_small" >>

\* The directory the framework keeps downloaded datasets and weights in.
KerasCache == << "~", ".keras" >>

\* The path a statement passes to the framework call that reads it.
PathOf(s) ==
    CASE s.op \in {"load_model", "load_history"} -> ModelsDir \o << s.f >>
      [] s.op = "image_load" -> BaseDir \o << "test", "cats", s.f >>
      [] s.op \in {"flow", "extract_features"} -> BaseDir \o << s.f >>
      [] OTHER -> << >>

\* The file of the cache a dataset loader or application_vgg16(weights =
\* "imagenet") reads, and downloads first if it is not there.
CachePathOf(s) ==
    CASE s.op = "load_data" -> KerasCache \o << "datasets", s.f >>
      [] s.op = "build_base" -> KerasCache \o << "models", "vgg16", s.f >>
      [] OTHER -> << >>

NoAccess == [read |-> {}, written |-> {}]

\* The paths read so far through a path the code names, and the files
\* written so far.
FileAccess(f, s, cached) ==
    [read |-> IF PathOf(s) = << >> THEN f.read ELSE f.read \cup {PathOf(s)},
     written |-> IF CachePathOf(s) = << >> \/ cached
                 THEN f.written ELSE f.written \cup {CachePathOf(s)}]

NoEf == [active |-> FALSE, finished |-> FALSE, dir |-> "", n |-> 0, i |-> 0,
         drawn |-> 0, features |-> << >>, labels |-> << >>,
         fcnt |-> << >>, lcnt |-> << >>]

\* The images a directory of cats_and_dogs_small holds.
DirSize(dir) ==
    CASE dir = "train" -> TrainCount
      [] dir = "validation" -> ValidationCount
      [] dir = "test" -> TestCount

Phases == << "load", "preprocess", "build", "compile", "fit", "evaluate", "plot" >>

\* The phase of the workflow an operation belongs to ("" for none of them).
Phase(op) ==
    CASE op \in {"load_data", "image_load", "read_batch"} -> "load"
      [] op \in {"reshape", "scale", "encode", "rescale_batch"} -> "preprocess"
      [] op \in {"build", "add_layers", "build_base"} -> "build"
      [] op = "compile" -> "compile"
      [] op = "fit" -> "fit"
      [] op = "evaluate" -> "evaluate"
      [] op = "plot_history" -> "plot"
      [] OTHER -> ""

\* No gradient ascent is running.
NoCall == [kind |-> "none", layer_name |-> "", filter_index |-> 0, size |-> 0]

NoImg == [updates |-> 0, clips |-> 0, dtype |-> "none"]

IdleAscent ==
    /\ acall = NoCall
    /\ apc = "idle"
    /\ ai = 0
    /\ aimg = NoImg
    /\ atrace = << >>

Init ==
    /\ nb \in Notebooks
    /\ completed \in BOOLEAN
    /\ px \in Pixels
    /\ pc = 1
    /\ status = "run"
    /\ env = [v \in ModelVars |-> 0]
    /\ heap = << >>
    /\ arr = [a \in ArrNames |-> NoArr]
    /\ gens = [g \in {"datagen", "train_datagen", "test_datagen"} |-> "none"]
    /\ hist = NoHist
    /\ df = NoHist
    /\ log = << >>
    /\ ef = NoEf
    /\ fsys = NoAccess
    /\ gpc = "idle"
    /\ layer_idx = 0
    /\ gi = 0
    /\ gj = 0
    /\ results = {}
    /\ shown = << >>
    /\ IdleAscent

Cur == Prog(nb)[pc]

Running == status = "run" /\ pc <= Len(Prog(nb))

\* The statement at pc can run: its cell parses and has no blanks left.
At(op) ==
    /\ Running
    /\ ~CellFails(nb, Cur.cell, completed)
    /\ Cur.op = op

\* The event a statement leaves in the run's log: the call, the object it
\* acts on with its trainable weights at that moment, the arrays passed.
Event(op, recv, obj, arrs, src, h) ==
    [op |-> op, line |-> Cur.line, cell |-> Cur.cell, recv |-> recv, obj |-> obj,
     arrs |-> arrs, tb |-> TrainableBase(h, obj),
     cnt |-> Cardinality(TrainableWeights(h, obj)), src |-> src]

Step(e) ==
    /\ log' = Append(log, e)
    /\ pc' = pc + 1
    /\ \E cached \in BOOLEAN : fsys' = FileAccess(fsys, Cur, cached)

Frame == UNCHANGED <<nb, completed, px, status, gridVars, ascentVars>>

\* library(...), parameters and function definitions.
Setup ==
    /\ At("setup")
    /\ Step(Event("setup", Cur.v, 0, {}, "", heap))
    /\ UNCHANGED <<env, heap, arr, gens, hist, df, ef>>
    /\ Frame

\* dataset_mnist(), fashion_mnist.load_data(), dataset_cifar10()
LoadData ==
    /\ At("load_data")
    /\ LET bound == DatasetArrays(Cur.f, px)
       IN  /\ arr' = [a \in ArrNames |-> IF a \in DOMAIN bound THEN bound[a] ELSE arr[a]]
           /\ Step(Event("load_data", "", 0,
                         {[name |-> a, role |-> "bound", kind |-> bound[a].kind,
                           split |-> bound[a].split, num |-> bound[a].num,
                           den |-> bound[a].den] : a \in DOMAIN bound}, "", heap))
    /\ UNCHANGED <<env, heap, gens, hist, df, ef>>
    /\ Frame

\* image_load + image_to_array of one test picture
ImageLoad ==
    /\ At("image_load")
    /\ arr' = [arr EXCEPT ![Cur.v] = A("image", "test", px)]
    /\ Step(Event("image_load", Cur.v, 0, {}, "", heap))
    /\ UNCHANGED <<env, heap, gens, hist, df, ef>>
    /\ Frame

\* image(...), plot(as.raster(...)), plt.imshow(...) of data
Visualize ==
    /\ At("visualize")
    /\ Step(Event("visualize", "", 0,
                  Views(arr, {Cur.x} \cap ArrNames, "shown"), "", heap))
    /\ UNCHANGED <<env, heap, arr, gens, hist, df, ef>>
    /\ Frame

\* array_reshape
Reshape ==
    /\ At("reshape")
    /\ arr[Cur.x].kind # "none"
    /\ arr' = [arr EXCEPT ![Cur.v] = arr[Cur.x]]
    /\ Step(Event("reshape", Cur.v, 0, Views(arr, {Cur.x}, "input"), "", heap))
    /\ UNCHANGED <<env, heap, gens, hist, df, ef>>
    /\ Frame

\* v <- x / 255
Scale ==
    /\ At("scale")
    /\ arr[Cur.x].kind # "none"
    /\ arr' = [arr EXCEPT ![Cur.v] = ScaleArr(arr[Cur.x])]
    /\ Step(Event("scale", Cur.v, 0, Views(arr, {Cur.x}, "input"), "", heap))
    /\ UNCHANGED <<env, heap, gens, hist, df, ef>>
    /\ Frame

\* to_categorical
Encode ==
    /\ At("encode")
    /\ arr[Cur.x].kind # "none"
    /\ arr' = [arr EXCEPT ![Cur.v] = arr[Cur.x]]
    /\ Step(Event("encode", Cur.v, 0, Views(arr, {Cur.x}, "input"), "", heap))
    /\ UNCHANGED <<env, heap, gens, hist, df, ef>>
    /\ Frame

\* keras_model_sequential() %>% layers; Cur.x names the base model that is
\* the first layer of the stack, if any.
Build ==
    /\ At("build")
    /\ Cur.x # "" => env[Cur.x] # 0
    /\ LET base == IF Cur.x = "" THEN 0 ELSE env[Cur.x]
           m == NewModel("sequential", "built", "", LayerStack(nb, Cur.line), base)
           h == Append(heap, m)
       IN  /\ heap' = h
           /\ env' = [env EXCEPT ![Cur.v] = Len(h)]
           /\ Step(Event("build", Cur.v, Len(h), {}, "", h))
    /\ UNCHANGED <<arr, gens, hist, df, ef>>
    /\ Frame

\* model <- model %>% more layers: the same object grows.
AddLayers ==
    /\ At("add_layers")
    /\ env[Cur.v] # 0
    /\ LET m == env[Cur.v]
           h == [heap EXCEPT ![m].stack = @ \o LayerStack(nb, Cur.line)]
       IN  /\ heap' = h
           /\ Step(Event("add_layers", Cur.v, m, {}, "", h))
    /\ UNCHANGED <<env, arr, gens, hist, df, ef>>
    /\ Frame

\* application_vgg16(weights = "imagenet", include_top = FALSE)
BuildBase ==
    /\ At("build_base")
    /\ LET h == Append(heap, NewBase("imagenet", "", "all"))
       IN  /\ heap' = h
           /\ env' = [env EXCEPT ![Cur.v] = Len(h)]
           /\ Step(Event("build_base", Cur.v, Len(h), {}, "", h))
    /\ UNCHANGED <<arr, gens, hist, df, ef>>
    /\ Frame

\* compile: the training function is built from the weights that are
\* trainable now.
Compile ==
    /\ At("compile")
    /\ env[Cur.v] # 0
    /\ LET m == env[Cur.v]
           h == [heap EXCEPT ![m].compiledHere = TRUE,
                             ![m].ctrain = TrainableWeights(heap, m)]
       IN  /\ heap' = h
           /\ Step(Event("compile", Cur.v, m, {}, "", h))
    /\ UNCHANGED <<env, arr, gens, hist, df, ef>>
    /\ Frame

\* summary(object)
Summary ==
    /\ At("summary")
    /\ env[Cur.v] # 0
    /\ Step(Event("summary", Cur.v, env[Cur.v], {}, "", heap))
    /\ UNCHANGED <<env, heap, arr, gens, hist, df, ef>>
    /\ Frame

\* length(model$trainable_weights)
CountTrainable ==
    /\ At("count_trainable")
    /\ env[Cur.v] # 0
    /\ Step(Event("count_trainable", Cur.v, env[Cur.v], {}, "", heap))
    /\ UNCHANGED <<env, heap, arr, gens, hist, df, ef>>
    /\ Frame

\* freeze_weights(conv_base)
Freeze ==
    /\ At("freeze_weights")
    /\ env[Cur.v] # 0
    /\ LET b == env[Cur.v]
           h == [heap EXCEPT ![b] = FreezeObj(@)]
       IN  /\ heap' = h
           /\ Step(Event("freeze_weights", Cur.v, b, {}, "", h))
    /\ UNCHANGED <<env, arr, gens, hist, df, ef>>
    /\ Frame

\* unfreeze_weights(conv_base, from = "block5_conv1")
Unfreeze ==
    /\ At("unfreeze_weights")
    /\ env[Cur.v] # 0
    /\ LET b == env[Cur.v]
           h == [heap EXCEPT ![b] = UnfreezeObj(@, Cur.f)]
       IN  /\ heap' = h
           /\ Step(Event("unfreeze_weights", Cur.v, b, {}, "", h))
    /\ UNCHANGED <<env, arr, gens, hist, df, ef>>
    /\ Frame


\* The arrays a fit call is given: x and y to learn from, and the
\* validation data, which is only scored.
FitArrays(ar, s) ==
    Views(ar, {s.x, s.y}, "train") \cup Views(ar, {s.val}, "validation")

\* Mutant: the validation data is learnt from as well.
FitUpdates_WithValidation(ar, s) ==
    {ar[s.x].split} \cup (IF s.val = "" THEN {} ELSE {ar[s.val].split})

\* The splits whose samples take part in the weight updates of a fit call.
FitUpdates(ar, s) == {ar[s.x].split}

\* fit / fit_generator
Fit ==
    /\ At("fit")
    /\ env[Cur.v] # 0
    /\ heap[env[Cur.v]].compiledHere
    /\ arr[Cur.x].kind # "none"
    /\ LET m == env[Cur.v]
           h == [heap EXCEPT ![m].fittedHere = TRUE,
                             ![m].updated = @ \cup FitUpdates(arr, Cur)]
       IN  /\ heap' = h
           /\ \E e \in FitEpochs(Cur) :
                 hist' = [origin |-> "fit", of |-> m, file |-> "", epochs |-> e,
                          series |-> [c \in FitMetrics(nb, Cur) |-> Series(c, e)]]
           /\ Step(Event("fit", Cur.v, m, FitArrays(arr, Cur), "", h))
    /\ UNCHANGED <<env, arr, gens, df, ef>>
    /\ Frame

\* evaluate / evaluate_generator
Evaluate ==
    /\ At("evaluate")
    /\ env[Cur.v] # 0
    /\ arr[Cur.x].kind # "none"
    /\ Step(Event("evaluate", Cur.v, env[Cur.v],
                  Views(arr, {Cur.x, Cur.y}, "input"), "", heap))
    /\ UNCHANGED <<env, heap, arr, gens, hist, df, ef>>
    /\ Frame

\* predict
Predict ==
    /\ At("predict")
    /\ env[Cur.v] # 0
    /\ arr[Cur.x].kind # "none"
    /\ Step(Event("predict", Cur.v, env[Cur.v], Views(arr, {Cur.x}, "input"), "", heap))
    /\ UNCHANGED <<env, heap, arr, gens, hist, df, ef>>
    /\ Frame

\* predict_classes
PredictClasses ==
    /\ At("predict_classes")
    /\ env[Cur.v] # 0
    /\ arr[Cur.x].kind # "none"
    /\ Step(Event("predict_classes", Cur.v, env[Cur.v],
                  Views(arr, {Cur.x}, "input"), "", heap))
    /\ UNCHANGED <<env, heap, arr, gens, hist, df, ef>>
    /\ Frame

\* The record a plot of the training history reads.
Plotted(name) == IF name = "df" THEN df ELSE hist

\* plot(history), ggplot(df, ...), ax.plot(history_dict[...])
PlotHistory ==
    /\ At("plot_history")
    /\ Plotted(Cur.x).origin # "none"
    /\ Step(Event("plot_history", Cur.x, Plotted(Cur.x).of, {},
                  Plotted(Cur.x).origin, heap))
    /\ UNCHANGED <<env, heap, arr, gens, hist, df, ef>>
    /\ Frame

\* load_model_hdf5(file): new objects, built from what the file holds.
LoadModel ==
    /\ At("load_model")
    /\ \E state \in CkptBaseStates :
         LET onbase == CkptOnBase(Cur.f)
             h1 == IF onbase THEN Append(heap, NewBase("loaded", Cur.f, state)) ELSE heap
             m == NewModel("sequential", "loaded", Cur.f, CkptStack(Cur.f),
                           IF onbase THEN Len(h1) ELSE 0)
             h == Append(h1, m)
         IN  /\ onbase \/ state = "frozen"
             /\ heap' = h
             /\ env' = [env EXCEPT ![Cur.v] = Len(h)]
             /\ Step(Event("load_model", Cur.v, Len(h), {}, "", h))
    /\ UNCHANGED <<arr, gens, hist, df, ef>>
    /\ Frame

\* py_load_object(file)
LoadHistory ==
    /\ At("load_history")
    /\ \E e \in 1..MaxEpochs :
          hist' = [origin |-> "loaded", of |-> 0, file |-> Cur.f, epochs |-> e,
                   series |-> [c \in Metrics |-> Series(c, e)]]
    /\ Step(Event("load_history", Cur.v, 0, {}, "loaded", heap))
    /\ UNCHANGED <<env, heap, arr, gens, df, ef>>
    /\ Frame

\* df <- data.frame(... history ...)
DataFrame ==
    /\ At("data_frame")
    /\ hist.origin # "none"
    /\ FrameFits(hist)
    /\ df' = HistoryFrame(hist)
    /\ Step(Event("data_frame", Cur.v, hist.of, {}, hist.origin, heap))
    /\ UNCHANGED <<env, heap, arr, gens, hist, ef>>
    /\ Frame

\* image_data_generator(rescale = 1/255, ...) or without rescale
Datagen ==
    /\ At("datagen")
    /\ gens' = [gens EXCEPT ![Cur.v] = Cur.f]
    /\ Step(Event("datagen", Cur.v, 0, {}, "", heap))
    /\ UNCHANGED <<env, heap, arr, hist, df, ef>>
    /\ Frame

\* The images a generator yields: read from the directory, then rescaled
\* if the generator's configuration says so.
Yield(config, split, p) ==
    IF config = "rescale" THEN ScaleArr(A("image", split, p)) ELSE A("image", split, p)

\* flow_images_from_directory(dir, generator, ...)
Flow ==
    /\ At("flow")
    /\ gens[Cur.x] # "none"
    /\ arr' = [arr EXCEPT ![Cur.v] = Yield(gens[Cur.x], Cur.f, px)]
    /\ Step(Event("flow", Cur.v, 0, {}, "", heap))
    /\ UNCHANGED <<env, heap, gens, hist, df, ef>>
    /\ Frame

\* keras_model(inputs = model$input, outputs = <outputs of the top 8 layers>)
DeriveModel ==
    /\ At("derive_model")
    /\ env[Cur.x] # 0
    /\ LET src == heap[env[Cur.x]]
           m == NewModel("functional", "derived", src.file, SubSeq(src.stack, 1, 8), 0)
           h == Append(heap, m)
       IN  /\ heap' = h
           /\ env' = [env EXCEPT ![Cur.v] = Len(h)]
           /\ Step(Event("derive_model", Cur.v, Len(h), {}, "", h))
    /\ UNCHANGED <<arr, gens, hist, df, ef>>
    /\ Frame

\* k_mean, k_gradients, the normalization of grads
Backend ==
    /\ At("backend")
    /\ Step(Event("backend", Cur.v, 0, {}, "", heap))
    /\ UNCHANGED <<env, heap, arr, gens, hist, df, ef>>
    /\ Frame

(***************************************************************************)
(* extract_features(directory, sample_count)                               *)
(***************************************************************************)
\* The position in the directory of the d-th image the generator yields:
\* it goes through the whole directory, then starts over.
ImageOf(dir, d) == ((d - 1) % DirSize(dir)) + 1

\* generator_next: the next batch_size images, fewer at the end of a pass.
NextBatch(dir, drawn) ==
    LET left == DirSize(dir) - (drawn % DirSize(dir))
        len == IF left < batch_size THEN left ELSE batch_size
    IN  [e \in 1..len |-> drawn + e]

\* index_range <- ((i * batch_size)+1):((i + 1) * batch_size)
IndexLo(i) == (i * batch_size) + 1

IndexHi(i) == (i + 1) * batch_size

\* Mutant: the labels of a batch are written in reverse order.
LabelRow_Reversed(i, e) == IndexHi(i) - e + 1

\* labels[index_range] <- labels_batch: the row each batch element goes to.
LabelRow(i, e) == IndexLo(i) + e - 1

\* features[index_range,,,] <- features_batch
FeatureRow(i, e) == IndexLo(i) + e - 1

\* if (i * batch_size >= sample_count) break
BreakNow(i, n) == i * batch_size >= n

\* features, labels <- array(0, ...); the generator is created; i <- 0
EfEnter ==
    /\ At("extract_features")
    /\ ~ef.active
    /\ gens["datagen"] # "none"
    /\ ef' = [active |-> TRUE, finished |-> FALSE, dir |-> Cur.f, n |-> Cur.n,
              i |-> 0, drawn |-> 0,
              features |-> [k \in 1..Cur.n |-> 0], labels |-> [k \in 1..Cur.n |-> 0],
              fcnt |-> [k \in 1..Cur.n |-> 0], lcnt |-> [k \in 1..Cur.n |-> 0]]
    /\ fsys' = FileAccess(fsys, Cur, TRUE)
    /\ UNCHANGED <<pc, env, heap, arr, gens, hist, df, log>>
    /\ Frame

\* One pass through the body of while(TRUE).
EfIter ==
    /\ At("extract_features")
    /\ ef.active /\ ~ef.finished
    /\ LET batch == NextBatch(ef.dir, ef.drawn)
           inputs == Yield(gens["datagen"], ef.dir, px)
           seen == {[name |-> "inputs_batch", role |-> "input", kind |-> inputs.kind,
                     split |-> inputs.split, num |-> inputs.num, den |-> inputs.den]}
           frows == {FeatureRow(ef.i, e) : e \in 1..batch_size}
           lrows == {LabelRow(ef.i, e) : e \in 1..batch_size}
           fits == /\ env["conv_base"] # 0
                   /\ Len(batch) = batch_size
                   /\ frows \cup lrows \subseteq 1..ef.n
       IN  IF fits
           THEN /\ ef' = [ef EXCEPT
                     !.features = [k \in 1..ef.n |->
                         IF k \in frows
                         THEN batch[CHOOSE e \in 1..batch_size : FeatureRow(ef.i, e) = k]
                         ELSE @[k]],
                     !.fcnt = [k \in 1..ef.n |-> IF k \in frows THEN @[k] + 1 ELSE @[k]],
                     !.labels = [k \in 1..ef.n |->
                         IF k \in lrows
                         THEN batch[CHOOSE e \in 1..batch_size : LabelRow(ef.i, e) = k]
                         ELSE @[k]],
                     !.lcnt = [k \in 1..ef.n |-> IF k \in lrows THEN @[k] + 1 ELSE @[k]],
                     !.drawn = @ + Len(batch),
                     !.i = @ + 1,
                     !.finished = BreakNow(ef.i + 1, ef.n)]
                /\ log' = log \o << Event("read_batch", "generator", 0, {}, "", heap),
                                    Event("rescale_batch", "generator", 0, {}, "", heap),
                                    Event("predict", "conv_base", env["conv_base"], seen, "", heap) >>
                /\ UNCHANGED status
           ELSE /\ status' = "error"
                /\ UNCHANGED <<ef, log>>
    /\ UNCHANGED <<pc, env, heap, arr, gens, hist, df>>
    /\ UNCHANGED <<nb, completed, px, fsys, gridVars, ascentVars>>

\* list(features = features, labels = labels) is bound to the caller's variable.
EfReturn ==
    /\ At("extract_features")
    /\ ef.active /\ ef.finished
    /\ arr' = [arr EXCEPT ![Cur.v \o "_features"] = A("features", ef.dir, 0),
                          ![Cur.v \o "_labels_ef"] = A("labels", ef.dir, 0)]
    /\ ef' = NoEf
    /\ Step(Event("extract_features", Cur.v, env["conv_base"], {}, "", heap))
    /\ UNCHANGED <<env, heap, gens, hist, df>>
    /\ Frame

\* The kernel cannot run the cell at pc: the error ends the run, and no
\* variable changes.
CellError ==
    /\ Running
    /\ CellFails(nb, Cur.cell, completed)
    /\ status' = "error"
    /\ UNCHANGED <<pc, env, heap, arr, gens, hist, df, log, ef>>
    /\ UNCHANGED <<nb, completed, px, fsys, gridVars, ascentVars>>

\* The calls that read a file or a directory of ../data.
ReadsFile(op) ==
    op \in {"load_model", "load_history", "image_load", "flow", "extract_features"}

\* Mutant: a failing call clears the variables that hold models.
CallFails_Clears ==
    /\ At(Cur.op)
    /\ ReadsFile(Cur.op)
    /\ ~ef.active
    /\ status' = "error"
    /\ env' = [v \in ModelVars |-> 0]
    /\ UNCHANGED <<pc, heap, arr, gens, hist, df, log, ef>>
    /\ UNCHANGED <<nb, completed, px, fsys, gridVars, ascentVars>>

\* The file or directory the call at pc reads is missing: the framework
\* call raises, no code of the notebook catches the exception, the run ends
\* and no variable changes.  In extract_features the directory is opened
\* before the loop.
CallFails ==
    /\ At(Cur.op)
    /\ ReadsFile(Cur.op)
    /\ ~ef.active
    /\ status' = "error"
    /\ UNCHANGED <<pc, env, heap, arr, gens, hist, df, log, ef>>
    /\ UNCHANGED <<nb, completed, px, fsys, gridVars, ascentVars>>

\* The last cell has run.
Finish ==
    /\ status = "run"
    /\ pc > Len(Prog(nb))
    /\ status' = "done"
    /\ UNCHANGED <<pc, env, heap, arr, gens, hist, df, log, ef>>
    /\ UNCHANGED <<nb, completed, px, fsys, gridVars, ascentVars>>

Next ==
    \/ Setup \/ LoadData \/ ImageLoad \/ Visualize \/ Reshape \/ Scale \/ Encode
    \/ Build \/ AddLayers \/ BuildBase \/ Compile \/ Summary \/ CountTrainable
    \/ Freeze \/ Unfreeze \/ Fit \/ Evaluate \/ Predict \/ PredictClasses
    \/ PlotHistory \/ LoadModel \/ LoadHistory \/ DataFrame \/ Datagen \/ Flow
    \/ DeriveModel \/ Backend \/ EfEnter \/ EfIter \/ EfReturn
    \/ CallFails \/ CellError \/ Finish

Spec == Init /\ [][Next]_vars


(***************************************************************************)
(* The grid loop of the filter-visualization notebook (Python)             *)
(***************************************************************************)
\* for layer_name in [...]
GridLayers == << "block1_conv1", "block2_conv1", "block3_conv1", "block4_conv1" >>

size == 64
margin == 5
GridSide == 8

\* results = np.zeros((8 * size + 7 * margin, 8 * size + 7 * margin, 3))
ResultsSide == GridSide * size + (GridSide - 1) * margin

\* Mutant: the filter index is not spread over the columns.
FilterIndex_Sum(i, j) == i + j

\* generate_pattern(layer_name, i + (j * 8), size=size): the filter asked for
FilterIndex(i, j) == i + (j * 8)

\* Mutant: the tiles are laid out without margins.
Tile_NoMargin(layer, i, j) ==
    LET horizontal_start == i * size
        vertical_start == j * size
    IN  [layer |-> layer, i |-> i, j |-> j, filter |-> i + (j * 8),
         horizontal_start |-> horizontal_start,
         horizontal_end |-> horizontal_start + size,
         vertical_start |-> vertical_start,
         vertical_end |-> vertical_start + size]

\* The square of the results array that cell (i, j) is written to.
Tile(layer, i, j) ==
    LET horizontal_start == i * size + i * margin
        vertical_start == j * size + j * margin
    IN  [layer |-> layer, i |-> i, j |-> j, filter |-> FilterIndex(i, j),
         horizontal_start |-> horizontal_start,
         horizontal_end |-> horizontal_start + size,
         vertical_start |-> vertical_start,
         vertical_end |-> vertical_start + size]

InitGrid ==
    /\ nb = "viz"
    /\ completed = FALSE
    /\ px = 0
    /\ pc = 1
    /\ status = "run"
    /\ env = [v \in ModelVars |-> 0]
    /\ heap = << >>
    /\ arr = [a \in ArrNames |-> NoArr]
    /\ gens = [g \in {"datagen", "train_datagen", "test_datagen"} |-> "none"]
    /\ hist = NoHist
    /\ df = NoHist
    /\ log = << >>
    /\ ef = NoEf
    /\ fsys = NoAccess
    /\ gpc = "layer"
    /\ layer_idx = 1
    /\ gi = 0
    /\ gj = 0
    /\ results = {}
    /\ shown = << >>
    /\ IdleAscent

\* The next layer_name is taken; results = np.zeros(...)
GridLayer ==
    /\ gpc = "layer"
    /\ layer_idx <= Len(GridLayers)
    /\ results' = {}
    /\ gi' = 0
    /\ gj' = 0
    /\ gpc' = "cell"
    /\ UNCHANGED <<layer_idx, shown, nbVars, ascentVars>>

\* One pass through the body of the loops over i and j.
GridCell ==
    /\ gpc = "cell"
    /\ results' = results \cup {Tile(GridLayers[layer_idx], gi, gj)}
    /\ IF gj + 1 < GridSide
       THEN /\ gj' = gj + 1
            /\ UNCHANGED <<gi, gpc>>
       ELSE /\ gj' = 0
            /\ gi' = gi + 1
            /\ gpc' = IF gi + 1 < GridSide THEN "cell" ELSE "show"
    /\ UNCHANGED <<layer_idx, shown, nbVars, ascentVars>>

\* plt.figure; plt.imshow(results); plt.show()
GridShow ==
    /\ gpc = "show"
    /\ shown' = Append(shown, [layer |-> GridLayers[layer_idx], tiles |-> results])
    /\ layer_idx' = layer_idx + 1
    /\ gpc' = "layer"
    /\ UNCHANGED <<gi, gj, results, nbVars, ascentVars>>

\* The list of layer names is exhausted.
GridDone ==
    /\ gpc = "layer"
    /\ layer_idx > Len(GridLayers)
    /\ gpc' = "done"
    /\ UNCHANGED <<layer_idx, gi, gj, results, shown, nbVars, ascentVars>>

NextGrid == GridLayer \/ GridCell \/ GridShow \/ GridDone

SpecGrid == InitGrid /\ [][NextGrid]_vars


(***************************************************************************)
(* Gradient ascent in input space (Python)                                 *)
(***************************************************************************)
\* for i in range(40)
AscentSteps == 40

\* def generate_pattern(layer_name, filter_index, size=150)
DefaultSize == 150

\* The loops that are run: the loop of the cell at line 431, on the loss of
\* filter 1 of block3_conv1 set up by the cells before it, the call
\* generate_pattern('block3_conv1', 0) of the cell at line 528, and calls
\* generate_pattern(layer_name, i + (j * 8), size=size) of the grid loop.
AscentCalls ==
    {[kind |-> "cell", layer_name |-> "block3_conv1", filter_index |-> 1,
      size |-> DefaultSize],
     [kind |-> "generate_pattern", layer_name |-> "block3_conv1", filter_index |-> 0,
      size |-> DefaultSize]}
    \cup {[kind |-> "generate_pattern", layer_name |-> GridLayers[l],
           filter_index |-> FilterIndex(i, j), size |-> size] :
             l \in 1..Len(GridLayers), i \in {0, GridSide - 1}, j \in {0, GridSide - 1}}

\* The symbolic graph generate_pattern builds before its loop.
GraphOps == << "build_loss", "build_gradient", "build_normalize", "build_function" >>

\* Mutant: the gradient is not normalized.
IterateOps_Unnormalized == << "gradient" >>

\* loss_value, grads_value = iterate([input_img_data]): the function
\* computes the gradient of the loss and divides it by its L2 norm.
IterateOps == << "gradient", "normalize" >>

\* The statements of deprocess_image, in order.
DeprocessOps == << "center", "scale", "shrink", "shift", "clip", "to_rgb", "clip", "cast" >>

Tagged(ops, n) == [k \in 1..Len(ops) |-> [op |-> ops[k], iter |-> n]]

InitAscent ==
    /\ nb = "viz"
    /\ completed = FALSE
    /\ px = 0
    /\ pc = 1
    /\ status = "run"
    /\ env = [v \in ModelVars |-> 0]
    /\ heap = << >>
    /\ arr = [a \in ArrNames |-> NoArr]
    /\ gens = [g \in {"datagen", "train_datagen", "test_datagen"} |-> "none"]
    /\ hist = NoHist
    /\ df = NoHist
    /\ log = << >>
    /\ ef = NoEf
    /\ fsys = NoAccess
    /\ gpc = "idle"
    /\ layer_idx = 0
    /\ gi = 0
    /\ gj = 0
    /\ results = {}
    /\ shown = << >>
    /\ acall \in AscentCalls
    /\ apc = IF acall.kind = "cell" THEN "noise" ELSE "graph"
    /\ ai = 0
    /\ aimg = NoImg
    /\ atrace = << >>

\* layer_output, loss, grads, the normalization of grads, iterate
AscentGraph ==
    /\ apc = "graph"
    /\ atrace' = atrace \o Tagged(GraphOps, 0)
    /\ apc' = "noise"
    /\ UNCHANGED <<acall, ai, aimg, nbVars, gridVars>>

\* input_img_data = np.random.random((1, size, size, 3)) * 20 + 128.
AscentNoise ==
    /\ apc = "noise"
    /\ aimg' = [updates |-> 0, clips |-> 0, dtype |-> "float"]
    /\ ai' = 0
    /\ apc' = "loop"
    /\ UNCHANGED <<acall, atrace, nbVars, gridVars>>

\* loss_value, grads_value = iterate([input_img_data])
AscentIterate ==
    /\ apc = "loop"
    /\ ai < AscentSteps
    /\ atrace' = atrace \o Tagged(IterateOps, ai)
    /\ apc' = "step"
    /\ UNCHANGED <<acall, ai, aimg, nbVars, gridVars>>

\* input_img_data += grads_value * step, and the next value of i
AscentStep ==
    /\ apc = "step"
    /\ aimg' = [aimg EXCEPT !.updates = @ + 1]
    /\ atrace' = Append(atrace, [op |-> "step", iter |-> ai])
    /\ ai' = ai + 1
    /\ apc' = "loop"
    /\ UNCHANGED <<acall, nbVars, gridVars>>

\* range(40) is exhausted: the cell ends; generate_pattern goes on to
\* img = input_img_data[0]; return deprocess_image(img)
AscentExit ==
    /\ apc = "loop"
    /\ ai >= AscentSteps
    /\ apc' = IF acall.kind = "cell" THEN "done" ELSE "deprocess"
    /\ UNCHANGED <<acall, ai, aimg, atrace, nbVars, gridVars>>

\* deprocess_image(x)
Deprocess ==
    /\ apc = "deprocess"
    /\ atrace' = atrace \o Tagged(DeprocessOps, ai)
    /\ aimg' = [aimg EXCEPT
                  !.clips = @ + Cardinality({k \in 1..Len(DeprocessOps) :
                                                DeprocessOps[k] = "clip"}),
                  !.dtype = "uint8"]
    /\ apc' = "done"
    /\ UNCHANGED <<acall, ai, nbVars, gridVars>>

NextAscent ==
    \/ AscentGraph \/ AscentNoise \/ AscentIterate \/ AscentStep
    \/ AscentExit \/ Deprocess

SpecAscent == InitAscent /\ [][NextAscent]_vars

(***************************************************************************)
(* Properties                                                              *)
(***************************************************************************)
Events == 1..Len(log)

Occurs(ph) == \E k \in Events : Phase(log[k].op) = ph

\* The position of the first operation of phase ph in the run.
FirstOf(ph) ==
    CHOOSE k \in Events :
        Phase(log[k].op) = ph /\ \A j \in 1..(k - 1) : Phase(log[j].op) # ph

\* If phases number a and b both occur, a starts before b.
InOrder(a, b) ==
    (Occurs(Phases[a]) /\ Occurs(Phases[b])) => FirstOf(Phases[a]) < FirstOf(Phases[b])

PhasePairs == {<<a, b>> \in (1..Len(Phases)) \X (1..Len(Phases)) : a < b}

\* (load, build), (preprocess, build), (preprocess, compile), (evaluate, plot)
SwappedPairs == {<<1, 3>>, <<2, 3>>, <<2, 4>>, <<6, 7>>}

ModelCalls == {"fit", "evaluate", "predict", "predict_classes"}

\* C2: every image array passed to fit, evaluate or predict has been divided
\* by 255 exactly once, so the value handed to the model, num/den with num a
\* raw pixel value in 0..255, lies in [0, 1]; training and test set alike.
C2_ImagesScaledOnce ==
    \A k \in Events :
        log[k].op \in ModelCalls =>
            \A a \in log[k].arrs :
                a.kind = "image" =>
                    /\ a.den = ScaleBy
                    /\ 0 <= a.num /\ a.num <= a.den

\* A brightest test image (raw value 255) has been passed to evaluate, and a
\* training image to fit.
C2_Witness ==
    /\ \E k \in Events : log[k].op = "evaluate" /\
          \E a \in log[k].arrs : a.kind = "image" /\ a.split = "test" /\ a.num = PixelMax
    /\ \E k \in Events : log[k].op = "fit" /\
          \E a \in log[k].arrs : a.kind = "image" /\ a.split = "train" /\ a.num = PixelMax

\* C3 as stated: training arrays are the only data passed to fit; data of
\* the test (or any other) split is never passed to fit.
C3_OnlyTrainingDataPassedToFit ==
    \A k \in Events :
        log[k].op = "fit" => \A a \in log[k].arrs : a.split = "train"

\* C3 as amended: the x and y a model is fitted on are training data; data
\* of another split reaches fit only as validation data, and no sample of
\* another split takes part in a weight update of any model.
C3_NoTestSampleInWeightUpdate ==
    /\ \A k \in Events :
          log[k].op = "fit" =>
              \A a \in log[k].arrs :
                  /\ a.role = "train" => a.split = "train"
                  /\ a.split # "train" => a.role = "validation"
    /\ \A m \in 1..Len(heap) : heap[m].updated \subseteq {"train"}

\* A fit call has been given test data as its validation data.
C3_Witness ==
    \E k \in Events : log[k].op = "fit" /\
        \E a \in log[k].arrs : a.split = "test" /\ a.role = "validation"

\* C4: while extract_features runs no error is raised; after i iterations
\* exactly i batches of batch_size images have been drawn, rows
\* 1..i*batch_size of features and of labels have been written exactly once
\* each and the rows above not at all (the index ranges are contiguous and
\* disjoint), row k of labels comes from the same batch element as row k of
\* features, and the loop breaks exactly when i = sample_count / batch_size,
\* when every image of the directory has been seen once.
C4_EveryRowWrittenOnce ==
    ef.active =>
        /\ status = "run"
        /\ ef.i * batch_size <= ef.n
        /\ ef.drawn = ef.i * batch_size
        /\ \A k \in 1..ef.n :
              IF k <= ef.i * batch_size
              THEN /\ ef.fcnt[k] = 1 /\ ef.lcnt[k] = 1
                   /\ ef.features[k] = k
                   /\ ef.labels[k] = ef.features[k]
              ELSE ef.fcnt[k] = 0 /\ ef.lcnt[k] = 0
        /\ ef.finished <=> (ef.i * batch_size = ef.n)
        /\ ef.finished =>
              /\ {ImageOf(ef.dir, ef.features[k]) : k \in 1..ef.n} = 1..DirSize(ef.dir)
              /\ ef.i * batch_size = DirSize(ef.dir)

\* extract_features(train_dir, 2000) has left its loop after 100 batches.
C4_Witness ==
    ef.active /\ ef.finished /\ ef.n = TrainCount /\ ef.i * batch_size = TrainCount

\* A model that holds a convolutional base.
OnBase(m) == m # 0 /\ heap[m].kind = "sequential" /\ heap[m].base # 0

\* The positions in the run of the calls of op, and of those on variable recv.
Ops(op) == {k \in Events : log[k].op = op}

Calls(op, recv) == {k \in Ops(op) : log[k].recv = recv}

OnBaseOps(op) == {k \in Ops(op) : OnBase(log[k].obj)}

LoadsOf(file) == {k \in Ops("load_model") : heap[log[k].obj].file = file}

\* C5 as stated: unfreeze_weights is executed only after the classifier on
\* top of the frozen base has been trained (build on the base, freeze, fit,
\* in this order), and once the notebook has run, a fit of the model on the
\* base follows the unfreeze.
C5_FiveStepsInOrder ==
    \A u \in Ops("unfreeze_weights") :
        /\ \E b \in OnBaseOps("build") : \E z \in Ops("freeze_weights") :
           \E t \in OnBaseOps("fit") : b < z /\ z < t /\ t < u
        /\ status = "done" => \E t \in OnBaseOps("fit") : u < t

\* C5 as amended: steps 1, 2 and 4 are executed in the documented order and
\* each training step is replaced by a compile followed by the load of a
\* checkpoint: build on the base, freeze, compile, load of
\* cats_and_dogs_small_3.h5, unfreeze, compile, load of
\* cats_and_dogs_small_4.h5; no model that holds a convolutional base is
\* fitted.
C5_StepsWithCheckpoints ==
    /\ \A u \in Ops("unfreeze_weights") :
          /\ \E b \in OnBaseOps("build") : \E z \in Ops("freeze_weights") :
             \E c \in Calls("compile", "model") :
             \E l \in LoadsOf("cats_and_dogs_small_3.h5") :
                b < z /\ z < c /\ c < l /\ l < u
          /\ status = "done" =>
                \E c \in Calls("compile", "model") :
                \E l \in LoadsOf("cats_and_dogs_small_4.h5") : u < c /\ c < l
    /\ OnBaseOps("fit") = {}

\* The pretrained-convnet notebook has run to its end, unfreeze included.
C5_Witness ==
    /\ nb = "nb24" /\ status = "done"
    /\ Ops("unfreeze_weights") # {}

AddedTensors(m) ==
    {T(m, l, p) : l \in {"dense_3", "dense_4"}, p \in {"kernel", "bias"}}

\* C7: once conv_base is frozen, the model built on it has exactly four
\* trainable weight tensors, kernel and bias of the two added dense layers,
\* and none of the base; the count taken before the freeze is strictly
\* larger and includes tensors of the base.
C7_FourTrainableAfterFreeze ==
    /\ \A k \in Ops("count_trainable") :
          IF \E z \in Ops("freeze_weights") : z < k
          THEN log[k].cnt = 4 /\ log[k].tb = {}
          ELSE log[k].cnt > 4 /\ log[k].tb # {}
    /\ \A z \in Ops("freeze_weights") :
          (/\ OnBase(env["model"])
           /\ heap[env["model"]].base = log[z].obj
           /\ ~\E u \in Ops("unfreeze_weights") : z < u) =>
                /\ TrainableWeights(heap, env["model"]) = AddedTensors(env["model"])
                /\ Cardinality(TrainableWeights(heap, env["model"])) = 4
                /\ TrainableBase(heap, env["model"]) = {}

\* The trainable weights have been counted before and after the freeze.
C7_Witness ==
    \E a \in Ops("count_trainable") : \E z \in Ops("freeze_weights") :
    \E b \in Ops("count_trainable") :
        a < z /\ z < b /\ log[a].cnt > 4 /\ log[b].cnt = 4

\* C8: in every compile and every evaluate of model after
\* unfreeze_weights(conv_base, from = "block5_conv1"), exactly the layers
\* of the convolutional base of the model acted on from block5_conv1 upward
\* are trainable, and every lower layer is frozen.
C8_TrainableFromBlock5 ==
    \A u \in Ops("unfreeze_weights") :
        \A k \in Calls("compile", "model") \cup Calls("evaluate", "model") :
            u < k => log[k].tb = LayersFrom("block5_conv1")

\* The positions from which a checkpoint has been loaded.
LoadCalls == Ops("load_model") \cup Ops("load_history")

AfterLoad(k) == \E j \in LoadCalls : j < k

\* The calls that bind the variable model to an object.
Binds == Calls("build", "model") \cup Calls("build_base", "model")
            \cup Calls("load_model", "model")

\* C9 as stated: after a load cell, model and history denote loaded objects
\* for the rest of the run, every later summary, evaluate, predict_classes
\* and plot of the history operates on loaded objects, and the evaluated
\* model was neither compiled nor fitted in the notebook.
C9_OnlyLoadedObjectsAfterLoad ==
    /\ \A k \in Ops("summary") \cup Ops("evaluate") \cup Ops("predict_classes") :
          AfterLoad(k) => heap[log[k].obj].origin = "loaded"
    /\ \A k \in Ops("plot_history") : AfterLoad(k) => log[k].src = "loaded"
    /\ \A k \in Ops("evaluate") :
          AfterLoad(k) =>
              ~heap[log[k].obj].compiledHere /\ ~heap[log[k].obj].fittedHere
    /\ Ops("load_model") # {} => heap[env["model"]].origin = "loaded"
    /\ Ops("load_history") # {} => hist.origin = "loaded"

\* C9 as amended: after a load cell, every later summary, evaluate and
\* predict_classes of the variable model and every later plot of the
\* history operates on loaded objects, the evaluated model was neither
\* compiled nor fitted in the notebook, history stays the loaded one, and
\* model denotes a loaded object as long as no later cell binds it anew.
C9_ModelCallsUseLoadedObjects ==
    /\ \A k \in Calls("summary", "model") \cup Calls("evaluate", "model")
                  \cup Calls("predict_classes", "model") :
          AfterLoad(k) => heap[log[k].obj].origin = "loaded"
    /\ \A k \in Ops("plot_history") : AfterLoad(k) => log[k].src = "loaded"
    /\ \A k \in Ops("evaluate") :
          AfterLoad(k) =>
              ~heap[log[k].obj].compiledHere /\ ~heap[log[k].obj].fittedHere
    /\ \A j \in Ops("load_model") :
          (~\E b \in Binds : j < b) => heap[env["model"]].origin = "loaded"
    /\ Ops("load_history") # {} => hist.origin = "loaded"

\* A notebook that fits a model and then loads a checkpoint has evaluated.
C9_Witness ==
    \E t \in Ops("fit") : \E l \in Ops("load_model") : \E e \in Ops("evaluate") :
        t < l /\ l < e

FiveBlocks ==
    {"block1_conv1", "block2_conv1", "block3_conv1", "block4_conv1", "block5_conv1"}

\* C10: when the grid loop has ended, one grid has been shown for the first
\* convolution layer of each of the five blocks, block1_conv1 to
\* block5_conv1.
C10_FiveGrids ==
    gpc = "done" =>
        /\ Len(shown) = Cardinality(FiveBlocks)
        /\ {shown[k].layer : k \in 1..Len(shown)} = FiveBlocks

\* The rows and the columns of results a tile is written to: the slice
\* start:end holds start .. end - 1.
TileRows(t) == t.horizontal_start..(t.horizontal_end - 1)

TileCols(t) == t.vertical_start..(t.vertical_end - 1)

\* C11: the tile of cell (i, j) is written to rows i*69 .. i*69+63 and
\* columns j*69 .. j*69+63, inside the 547x547 results array; the tiles of
\* two distinct cells do not overlap; no row or column of a 5-pixel band
\* between tiles is written, so the bands keep the value 0; when a grid is
\* shown it holds the 64 tiles of an 8x8 grid.
C11_TilesInsideAndApart ==
    /\ ResultsSide = 547
    /\ \A t \in results :
          /\ t.i \in 0..7 /\ t.j \in 0..7
          /\ TileRows(t) = (t.i * 69)..(t.i * 69 + 63)
          /\ TileCols(t) = (t.j * 69)..(t.j * 69 + 63)
          /\ TileRows(t) \cup TileCols(t) \subseteq 0..(ResultsSide - 1)
          /\ \A r \in TileRows(t) \cup TileCols(t) : r % 69 < 64
    /\ \A t \in results : \A u \in results :
          <<t.i, t.j>> # <<u.i, u.j>> =>
              \/ TileRows(t) \cap TileRows(u) = {}
              \/ TileCols(t) \cap TileCols(u) = {}
    /\ gpc = "show" => {<<t.i, t.j>> : t \in results} = (0..7) \X (0..7)

\* The last tile of a grid, cell (7, 7), has been written up to row and
\* column 546.
C11_Witness ==
    /\ gpc = "show"
    /\ \E t \in results :
          t.i = 7 /\ t.j = 7 /\ t.horizontal_end = 547 /\ t.vertical_end = 547

\* C12: the filter index passed to generate_pattern for cell (i, j) is
\* i + j*8, it lies in 0..63, distinct cells of a grid get distinct
\* indices, and over the 64 cells of a grid every index in 0..63 is used
\* exactly once.
C12_FirstSixtyFourFilters ==
    /\ \A t \in results : t.filter = t.i + t.j * 8 /\ t.filter \in 0..63
    /\ \A t \in results : \A u \in results :
          <<t.i, t.j>> # <<u.i, u.j>> => t.filter # u.filter
    /\ gpc = "show" =>
          /\ {t.filter : t \in results} = 0..63
          /\ Cardinality(results) = 64

\* A grid is complete and filter 63 was asked for in its last cell.
C12_Witness ==
    /\ gpc = "show"
    /\ Cardinality({t.filter : t \in results}) = 64
    /\ \E t \in results : t.i = 7 /\ t.j = 7 /\ t.filter = 63

\* The positions of op in the trace of the gradient ascent.
TraceOps(op) == {k \in 1..Len(atrace) : atrace[k].op = op}

\* C13 as stated: every repetition of the loop computes the gradient,
\* normalizes it, moves the image by the step and clips the image, in this
\* order, before the next repetition starts.
C13_ClipInEveryRepetition ==
    \A k \in TraceOps("step") :
        /\ k > 2
        /\ atrace[k - 2] = [op |-> "gradient", iter |-> atrace[k].iter]
        /\ atrace[k - 1] = [op |-> "normalize", iter |-> atrace[k].iter]
        /\ k < Len(atrace) =>
              atrace[k + 1] = [op |-> "clip", iter |-> atrace[k].iter]

\* C13 as amended: every repetition computes the gradient, normalizes it
\* and moves the image by the step, in this order and with nothing in
\* between; the image is never clipped inside the loop; it is clipped only
\* by deprocess_image, twice, after the last of the 40 repetitions, and the
\* loop of the cell at line 431 never clips.
C13_ClipOnlyAfterLoop ==
    /\ \A n \in 0..(ai - 1) :
          \E k \in TraceOps("step") :
              /\ k > 2
              /\ atrace[k] = [op |-> "step", iter |-> n]
              /\ atrace[k - 2] = [op |-> "gradient", iter |-> n]
              /\ atrace[k - 1] = [op |-> "normalize", iter |-> n]
    /\ Cardinality(TraceOps("step")) = ai /\ aimg.updates = ai
    /\ Cardinality(TraceOps("gradient")) = Cardinality(TraceOps("normalize"))
    /\ \A c \in TraceOps("clip") :
          /\ atrace[c].iter = AscentSteps
          /\ \A k \in TraceOps("step") : k < c
          /\ Cardinality(TraceOps("step")) = AscentSteps
    /\ aimg.clips = Cardinality(TraceOps("clip"))
    /\ apc = "done" =>
          /\ ai = AscentSteps
          /\ aimg.clips = IF acall.kind = "cell" THEN 0 ELSE 2

\* generate_pattern has returned after 40 repetitions and deprocess_image.
C13_Witness ==
    /\ apc = "done" /\ acall.kind = "generate_pattern"
    /\ ai = AscentSteps /\ aimg.clips = 2

C15_HistoryFrameRows ==
    /\ hist.origin # "none" =>
          /\ DOMAIN hist.series = Metrics
          /\ hist.epochs >= 1
          /\ \A m \in Metrics : Len(hist.series[m]) = hist.epochs
    /\ df.origin # "none" =>
          /\ Len(df.rows) = df.epochs
          /\ \A k \in 1..Len(df.rows) :
                /\ df.rows[k]["epochs"] = k
                /\ \A m \in Metrics : df.rows[k][m] = df.series[m][k]
                                      /\ df.rows[k][m] = <<m, k>>

\* The data frame of a loaded history of several epochs has been plotted.
C15_Witness ==
    /\ df.origin = "loaded"
    /\ Len(df.rows) = MaxEpochs /\ MaxEpochs > 1
    /\ \E k \in Ops("plot_history") : \E d \in Ops("data_frame") : d < k

Under(path, dir) == Len(path) >= Len(dir) /\ SubSeq(path, 1, Len(dir)) = dir

\* C16 as stated: every path read lies under ../data, and no file is
\* written or deleted: the file system is as it was before the run.
C16_FileSystemUnchanged ==
    /\ \A path \in fsys.read : Under(path, << "..", "data" >>)
    /\ fsys.written = {}

\* C16 as amended: every path the code names lies under ../data and is only
\* read; nothing under ../data is written; the only files written are files
\* of the Keras cache, downloaded by a dataset loader or by
\* application_vgg16 when they are not cached yet.
C16_DataDirectoryOnlyRead ==
    /\ \A path \in fsys.read : Under(path, << "..", "data" >>)
    /\ \A path \in fsys.written :
          /\ Under(path, << "~", ".keras" >>)
          /\ ~Under(path, << "..", "data" >>)
          /\ path \notin fsys.read
    /\ fsys.written # {} => Ops("load_data") \cup Ops("build_base") # {}

\* A notebook has run to its end, has read a checkpoint and a history, and
\* its dataset was not cached.
C16_Witness ==
    /\ status = "done"
    /\ Cardinality(fsys.read) >= 2
    /\ fsys.written # {}

\* C17: in a run of the filter-visualization notebook from a fresh kernel,
\* every cell the run comes to can be executed by the kernel, and every
\* identifier its statement reads has been bound by an earlier statement
\* (K, np, plt, model, loss and grads included).
C17_EveryCellRunsWithBoundNames ==
    (nb = "viz" /\ pc <= Len(Prog(nb))) =>
        /\ ~CellFails(nb, Cur.cell, completed)
        /\ IdentsRead(Cur.line) \subseteq BoundBefore(pc)

====
